---- MODULE Spec2Model ----
(***************************************************************************)
(* Seat-capacity accounting and the registration lifecycle of the EventX   *)
(* backend (server/controllers/registrationController.js and the event     *)
(* controller).  Every request handler is an async function: the code      *)
(* between two awaits runs atomically on the single Node.js thread, and    *)
(* every await is one database operation, which is where the requests in   *)
(* flight interleave.  One action below is one such database operation     *)
(* together with the synchronous code that follows it up to the next       *)
(* await (or up to the response).                                          *)
(***************************************************************************)
EXTENDS Integers, Sequences, FiniteSets, TLC

\* ------------------------------------------------------------------ bounds
NProcs    == 3      \* request slots
NUsers    == 3      \* user accounts; the last one has role admin
MaxSeats  == 3      \* largest totalSeats a request may carry
\* The general specification: events and registration records ever created,
\* readings of the clock.
MaxLive   == 1
MaxRegs   == 2
MaxClock  == 3

Procs    == 1..NProcs
Users    == 1..NUsers
\* The accounts that register for events: the route asks for an authenticated
\* caller only, so every account, the admin's included.
Registrants == Users

\* req.user.role: the role stored with the authenticated account.
roleOf(u) == IF u = NUsers THEN "admin" ELSE "user"

\* The values updateRegistrationStatus accepts.
ValidStatuses == {"confirmed", "cancelled", "waitlisted"}
\* What a request body may carry as status; "pending" stands for any other value.
StatusInputs  == ValidStatuses \cup {"pending"}

VARIABLES
  events,   \* Event collection: ids are 1..Len(events), in order of creation
  regs,     \* Registration collection: ids are 1..Len(regs), in order of creation
  now,      \* the next reading of Date.now()
  req,      \* the request each slot is serving, with the handler's local variables
  lim       \* the bounds of the run, fixed by the initial state

vars == <<events, regs, now, req, lim>>

\* The ids a request may name: those of the events and registrations the run
\* may create, and one event id that is never created.
EventIds == 1..(lim.live + 1)
RegIds   == 1..lim.regs

\* ------------------------------------------------------------- collections
\* What is left at the id of a deleted event.
Deleted == [exists |-> FALSE, totalSeats |-> 0]

\* Event.findById(e) finds a document.
EventExists(e) == e \in DOMAIN events /\ events[e].exists

\* Registration.findById(r) finds a document.
RegExists(r) == r \in DOMAIN regs

\* Registration.countDocuments({event: e, status: 'confirmed'}) on the
\* collection rs.
countConfirmed(rs, e) ==
  Cardinality({r \in DOMAIN rs : rs[r].event = e /\ rs[r].status = "confirmed"})

\* confirmedCount without the filter on status; C14 fails of it.
confirmedCount_anyStatus(e) == Cardinality({r \in DOMAIN regs : regs[r].event = e})

confirmedCount(e) == countConfirmed(regs, e)

\* registrationCount with the filter on status confirmed that the seat counts
\* have; C13 fails of it.
registrationCount_confirmedOnly(e) == confirmedCount(e)

\* Registration.countDocuments({event: e})
registrationCount(e) ==
  Cardinality({r \in DOMAIN regs : regs[r].event = e})

\* The derived quantity: event.totalSeats - confirmedRegistrations.
availableSeats(e) == events[e].totalSeats - confirmedCount(e)

\* Registration.findOne({user: u, event: e}) on the collection rs: the first
\* matching document in natural order (records are never removed, so that is the
\* order of creation); 0 when there is none.
Matching(rs, u, e) == {r \in DOMAIN rs : rs[r].user = u /\ rs[r].event = e}

firstMatch(rs, u, e) ==
  IF Matching(rs, u, e) = {} THEN 0
  ELSE CHOOSE r \in Matching(rs, u, e) : \A s \in Matching(rs, u, e) : r <= s

findOne(u, e) == firstMatch(regs, u, e)

\* ------------------------------------------------------ number arithmetic
\* The numbers of the program are IEEE-754 doubles.  The counts and seat
\* numbers are small integers, which doubles hold exactly; occupancyRate is a
\* quotient, which is rounded.  A double other than 0 is [m, e]: m the MantBits
\* bits of the significand, first bit 1, read as an integer, times 2^e; 0 is
\* the empty significand.
MantBits == 53

\* The arithmetic below works on Chunk digits at a time.
Chunk == 8

Zero == [m |-> << >>, e |-> 0]

RECURSIVE bitsOf(_)
\* The binary digits of the natural number n, most significant first.
bitsOf(n) == IF n = 0 THEN << >> ELSE Append(bitsOf(n \div 2), n % 2)

\* The last w binary digits of the natural number n.
bitsFixed(n, w) == [i \in 1..w |-> (n \div 2^(w - i)) % 2]

RECURSIVE valueOf(_)
\* The natural number whose binary digits are bits (at most Chunk of them).
valueOf(bits) ==
  IF bits = << >> THEN 0
  ELSE 2 * valueOf(SubSeq(bits, 1, Len(bits) - 1)) + bits[Len(bits)]

RECURSIVE timesSmall(_, _, _)
\* The digits of bits * k + carry, for a small k >= 1.
timesSmall(bits, k, carry) ==
  IF bits = << >> THEN bitsOf(carry)
  ELSE LET n == Len(bits)
           w == IF n < Chunk THEN n ELSE Chunk
           v == valueOf(SubSeq(bits, n - w + 1, n)) * k + carry
       IN timesSmall(SubSeq(bits, 1, n - w), k, v \div 2^w) \o bitsFixed(v % 2^w, w)

\* The digits of bits + 1.
plusOne(bits) ==
  IF \A i \in 1..Len(bits) : bits[i] = 1
    THEN << 1 >> \o [i \in 1..Len(bits) |-> 0]
  ELSE LET j == CHOOSE j \in 1..Len(bits) :
                  bits[j] = 0 /\ \A i \in (j + 1)..Len(bits) : bits[i] = 1
       IN [i \in 1..Len(bits) |-> IF i < j THEN bits[i] ELSE IF i = j THEN 1 ELSE 0]

\* Round to nearest, ties to even: the double nearest to the number whose
\* leading digits are bits (first bit 1, the last one worth 2^e), sticky telling
\* that non-zero digits follow them.
roundNearest(bits, e, sticky) ==
  IF bits = << >> THEN Zero
  ELSE IF Len(bits) <= MantBits
    THEN [m |-> bits \o [i \in 1..(MantBits - Len(bits)) |-> 0],
          e |-> e - (MantBits - Len(bits))]
  ELSE LET keep  == SubSeq(bits, 1, MantBits)
           more  == sticky \/ \E i \in (MantBits + 2)..Len(bits) : bits[i] = 1
           up    == bits[MantBits + 1] = 1 /\ (more \/ keep[MantBits] = 1)
           r     == IF up THEN plusOne(keep) ELSE keep
           e2    == e + (Len(bits) - MantBits)
       IN IF Len(r) > MantBits THEN [m |-> SubSeq(r, 1, MantBits), e |-> e2 + 1]
          ELSE [m |-> r, e |-> e2]

\* The double of the natural number n.
fromInt(n) == roundNearest(bitsOf(n), 0, FALSE)

RECURSIVE quotientBits(_, _, _, _)
\* Long division, Chunk digits at a step: the digits acc of the quotient so far
\* (the last one worth 2^e) and the remainder r, carried on until at least one
\* guard digit follows MantBits digits or the division ends.
quotientBits(r, t, acc, e) ==
  IF r = 0 \/ Len(acc) > MantBits THEN [bits |-> acc, e |-> e, sticky |-> r # 0]
  ELSE LET q == (r * 2^Chunk) \div t
       IN quotientBits((r * 2^Chunk) % t, t,
                       IF acc = << >> THEN bitsOf(q) ELSE acc \o bitsFixed(q, Chunk),
                       e - Chunk)

\* c / t for natural numbers c and t >= 1.
fdiv(c, t) ==
  LET d == quotientBits(c % t, t, bitsOf(c \div t), 0)
  IN roundNearest(d.bits, d.e, d.sticky)

\* x * k for a double x and a small natural number k.
fmul(x, k) ==
  IF x.m = << >> \/ k = 0 THEN Zero ELSE roundNearest(timesSmall(x.m, k, 0), x.e, FALSE)

\* ---------------------------------------------------------------- requests
\* The fields of a response body that this model follows, at their values in a
\* response that does not carry them.
NoOut == [ok |-> FALSE, availableSeats |-> 0, totalSeats |-> 0,
          totalRegistrations |-> 0, cancellations |-> 0, occupancyRate |-> Zero,
          total |-> 0, events |-> << >>, registered |-> FALSE, status |-> "",
          registrationId |-> 0, registrationDate |-> 0]

Idle == [op |-> "idle", pc |-> "idle", user |-> 0, event |-> 0, reg |-> 0,
         status |-> "", has |-> FALSE, seats |-> 0, ev |-> 0, loaded |-> "",
         date |-> 0, count |-> 0, found |-> << >>, result |-> "", out |-> NoOut,
         pre |-> [events |-> << >>, regs |-> << >>]]

\* A request that has just been routed to its handler: the caller req.user, and
\* of req.params and req.body what the handler reads (the event id, the
\* registration id, body.status, whether body.totalSeats is given and its value).
\* pre is not of the program: it keeps the two collections as they were when
\* the request arrived, for the claims that compare before and after a call.
NewReq(op, u, e, r, s, h, n) ==
  [Idle EXCEPT !.op = op, !.user = u, !.event = e, !.reg = r,
               !.status = s, !.has = h, !.seats = n,
               !.pre = [events |-> events, regs |-> regs]]

\* The handler has sent its response: the locals are gone.
Respond(q, res) ==
  [q EXCEPT !.pc = "done", !.result = res, !.ev = 0, !.loaded = "", !.date = 0,
            !.count = 0, !.found = << >>]

\* The response res with the body out.
Reply(q, res, out) == [Respond(q, res) EXCEPT !.out = out]

InFlight == {p \in Procs : req[p].pc \notin {"idle", "done"}}
Busy == {p \in Procs : req[p].pc # "idle"}
Registering == {p \in InFlight : req[p].op = "register"}

\* The database is empty and no request is in flight.  The requests are served
\* one after the other: each is answered before the next one arrives.
Init ==
  /\ events = << >>
  /\ regs = << >>
  /\ now = 1
  /\ req = [p \in Procs |-> Idle]
  /\ lim = [flight |-> 1, live |-> MaxLive, regs |-> MaxRegs,
            clock |-> MaxClock, keep |-> FALSE]

Set(p, q) == [req EXCEPT ![p] = q]

\* The response is sent in the same synchronous stretch as the handler's last
\* step: it is out before any other request moves.  A run that keeps the answers
\* leaves them in the slots instead.
Quiet == lim.keep \/ \A p \in Procs : req[p].pc # "done"

\* A request is taken up by the lowest free slot (which slot serves a request
\* carries no meaning), while fewer than lim.flight are being served.
CanStart(p) ==
  /\ req[p].pc = "idle"
  /\ \A o \in Procs : o < p => req[o].pc # "idle"
  /\ Quiet
  /\ Cardinality(Busy) < lim.flight

\* The request in slot p is at position pc of the handler op.
At(p, op, pc) == req[p].op = op /\ req[p].pc = pc /\ Quiet

\* The answer has been collected; the slot is free again.
Return(p) ==
  /\ ~lim.keep
  /\ req[p].pc = "done"
  /\ req' = Set(p, Idle)
  /\ UNCHANGED <<events, regs, now, lim>>

\* ------------------------------------------------------- registerForEvent
\* A new Registration document {user, event}: the schema defaults give it
\* status confirmed and the registrationDate read when the document is built.
NewRegistration(u, e, d) ==
  [user |-> u, event |-> e, status |-> "confirmed", registrationDate |-> d]

\* registerEntry without the 404 for a missing event; C15 fails of it.
registerEntry_noCheck(q) ==
  [q EXCEPT !.pc = "findOne",
            !.ev = IF EventExists(q.event) THEN events[q.event].totalSeats ELSE 0]

\* const event = await Event.findById(eventId); if (!event) 404
registerEntry(q) ==
  IF EventExists(q.event)
  THEN [q EXCEPT !.pc = "findOne", !.ev = events[q.event].totalSeats]
  ELSE Respond(q, "NotFound")

\* What registerForEvent does with the status of the record findOne returned
\* ("" when it returned none).
registerBranch(st) ==
  IF st = "confirmed" THEN "already"
  ELSE IF st = "cancelled" THEN "reactivate"
  ELSE "count"

\* isFull with > in the place of >=; C11 fails of it.
isFull_offByOne(count, totalSeats) == count > totalSeats

\* if (registeredCount >= event.totalSeats): event is the document read by
\* findById at the start of the handler.
isFull(count, totalSeats) == count >= totalSeats

\* The status of the record findOne returns for (u, e), "" when there is none.
foundStatus(u, e) == IF findOne(u, e) = 0 THEN "" ELSE regs[findOne(u, e)].status

\* A register request creates at most one record and reads the clock at most
\* once: whether a request by u for e, served now, creates one, and whether it
\* reads the clock.
creates(u, e) ==
  /\ EventExists(e)
  /\ registerBranch(foundStatus(u, e)) = "count"
  /\ ~isFull(confirmedCount(e), events[e].totalSeats)

stamps(u, e) ==
  \/ creates(u, e)
  \/ EventExists(e) /\ registerBranch(foundStatus(u, e)) = "reactivate"

\* It is taken up while the records and the readings it may add stay within the
\* bounds of the run: any request while there is room for one record and one
\* reading per register request in flight, and, with nothing else in flight, a
\* request that is going to add none.
WithinRun(u, e) ==
  \/ /\ Len(regs) + Cardinality(Registering) < lim.regs
     /\ now + Cardinality(Registering) <= lim.clock
  \/ /\ InFlight = {}
     /\ creates(u, e) => Len(regs) < lim.regs
     /\ stamps(u, e) => now <= lim.clock

\* POST /api/registrations/:eventId by user u: the handler up to its first
\* database operation.
registerForEvent(p, u, e) ==
  /\ CanStart(p)
  /\ WithinRun(u, e)
  /\ req' = Set(p, registerEntry(NewReq("register", u, e, 0, "", FALSE, 0)))
  /\ UNCHANGED <<events, regs, now, lim>>

\* const existingRegistration = await Registration.findOne({user, event}) and
\* the branch on its status.  On the cancelled branch the document is changed in
\* memory (status, registrationDate = Date.now()) before save() is awaited.
RegFindOne(p) ==
  LET q  == req[p]
      r  == findOne(q.user, q.event)
      st == IF r = 0 THEN "" ELSE regs[r].status
      br == registerBranch(st)
  IN
  /\ At(p, "register", "findOne")
  /\ IF br = "already"
       THEN req' = Set(p, Respond([q EXCEPT !.reg = r], "AlreadyRegistered")) /\ now' = now
     ELSE IF br = "reactivate"
       THEN /\ req' = Set(p, [q EXCEPT !.pc = "saveReg", !.reg = r, !.loaded = st,
                                       !.ev = 0, !.date = now])
            /\ now' = now + 1
     ELSE req' = Set(p, [q EXCEPT !.pc = "count"]) /\ now' = now
  /\ UNCHANGED <<events, regs, lim>>

\* reactivated without the write of registrationDate; C6 fails of it.
reactivated_keepDate(rec, d) == [rec EXCEPT !.status = "confirmed"]

\* existingRegistration.status = 'confirmed';
\* existingRegistration.registrationDate = Date.now();
\* await existingRegistration.save(): the two modified paths are written.
reactivated(rec, d) == [rec EXCEPT !.status = "confirmed", !.registrationDate = d]

RegSaveReg(p) ==
  LET q == req[p] IN
  /\ At(p, "register", "saveReg")
  /\ regs' = [regs EXCEPT ![q.reg] = reactivated(regs[q.reg], q.date)]
  /\ req' = Set(p, [q EXCEPT !.pc = "saveEvent", !.date = 0])
  /\ UNCHANGED <<events, now, lim>>

\* const registeredCount = await Registration.countDocuments({event, status:
\* 'confirmed'}) and the capacity check; when it passes the new document is built
\* (which reads the clock) and Registration.create is awaited.
RegCount(p) ==
  LET q == req[p] IN
  /\ At(p, "register", "count")
  /\ IF isFull(confirmedCount(q.event), q.ev)
       THEN req' = Set(p, Respond(q, "Full")) /\ now' = now
       ELSE req' = Set(p, [q EXCEPT !.pc = "create", !.ev = 0, !.date = now]) /\ now' = now + 1
  /\ UNCHANGED <<events, regs, lim>>

\* RegCreate with the new document filed under the first event whatever event
\* was asked for; C28 fails of it.
RegCreate_firstEvent(p) ==
  LET q == req[p] IN
  /\ At(p, "register", "create")
  /\ regs' = Append(regs, NewRegistration(q.user, 1, q.date))
  /\ req' = Set(p, [q EXCEPT !.pc = "saveEvent", !.reg = Len(regs) + 1, !.date = 0])
  /\ UNCHANGED <<events, now, lim>>

\* await Registration.create({user, event}): the insert itself.
RegCreate(p) ==
  LET q == req[p] IN
  /\ At(p, "register", "create")
  /\ regs' = Append(regs, NewRegistration(q.user, q.event, q.date))
  /\ req' = Set(p, [q EXCEPT !.pc = "saveEvent", !.reg = Len(regs) + 1, !.date = 0])
  /\ UNCHANGED <<events, now, lim>>

\* event.registeredUsers += 1; await event.save().  registeredUsers is not a
\* path of the event schema, so nothing of the event is written but the
\* updatedAt stamp of the pre-save hook, which is not part of this model; save()
\* rejects (DocumentNotFoundError) when the event is gone, and the catch block
\* answers 500.  Otherwise 200 with the reused record or 201 with the new one.
RegSaveEvent(p) ==
  LET q == req[p] IN
  /\ At(p, "register", "saveEvent")
  /\ req' = Set(p, IF ~EventExists(q.event) THEN Respond(q, "ServerError")
                   ELSE IF q.loaded = "cancelled" THEN Respond(q, "Reactivated")
                   ELSE Respond(q, "Created"))
  /\ UNCHANGED <<events, regs, now, lim>>

\* ------------------------------------------------------ cancelRegistration
\* notAuthorized with || in the place of &&; C9 fails of it.
notAuthorized_either(owner, caller) == owner # caller \/ roleOf(caller) # "admin"

\* registration.user.toString() !== req.user._id.toString() &&
\* req.user.role !== 'admin'
notAuthorized(owner, caller) == owner # caller /\ roleOf(caller) # "admin"

\* cancelBranch with the two checks in the other order; C26 fails of it.
cancelBranch_statusFirst(owner, st, caller) ==
  IF st = "cancelled" THEN "AlreadyCancelled"
  ELSE IF notAuthorized(owner, caller) THEN "Forbidden"
  ELSE "cancel"

\* cancelBranch without the check for a cancelled record; C8 fails of it.
cancelBranch_noConflict(owner, st, caller) ==
  IF owner # caller /\ roleOf(caller) # "admin" THEN "Forbidden" ELSE "cancel"

\* The checks cancelRegistration makes on the document findById returned, in
\* the order of the code: 403, then 400, then go on to cancel.
cancelBranch(owner, st, caller) ==
  IF notAuthorized(owner, caller) THEN "Forbidden"
  ELSE IF st = "cancelled" THEN "AlreadyCancelled"
  ELSE "cancel"

\* const registration = await Registration.findById(req.params.id) and the
\* checks; on the last branch status is set in memory and save() is awaited.
cancelEntry(q) ==
  IF ~RegExists(q.reg) THEN Respond(q, "NotFound")
  ELSE LET rec == regs[q.reg]
           br  == cancelBranch(rec.user, rec.status, q.user)
       IN IF br = "cancel"
          THEN [q EXCEPT !.pc = "saveReg", !.loaded = rec.status, !.event = rec.event]
          ELSE Respond([q EXCEPT !.event = rec.event], br)

\* PUT /api/registrations/:id/cancel by caller u.
cancelRegistration(p, u, r) ==
  /\ CanStart(p)
  /\ req' = Set(p, cancelEntry(NewReq("cancel", u, 0, r, "", FALSE, 0)))
  /\ UNCHANGED <<events, regs, now, lim>>

\* cancelled without the assignment to status; C7 fails of it.
cancelled_noWrite(rec) == rec

\* registration.status = 'cancelled'; await registration.save()
cancelled(rec) == [rec EXCEPT !.status = "cancelled"]

\* CancelSave with the document removed from the collection instead of
\* updated; C21 fails of it.
CancelSave_remove(p) ==
  LET q == req[p] IN
  /\ At(p, "cancel", "saveReg")
  /\ regs' = SubSeq(regs, 1, Len(regs) - 1)
  /\ req' = Set(p, [q EXCEPT !.pc = "findEvent"])
  /\ UNCHANGED <<events, now, lim>>

CancelSave(p) ==
  LET q == req[p] IN
  /\ At(p, "cancel", "saveReg")
  /\ regs' = [regs EXCEPT ![q.reg] = cancelled(regs[q.reg])]
  /\ req' = Set(p, [q EXCEPT !.pc = "findEvent"])
  /\ UNCHANGED <<events, now, lim>>

\* const event = await Event.findById(registration.event);
\* event.registeredUsers -= 1 throws a TypeError when the event is gone (500).
CancelFindEvent(p) ==
  LET q == req[p] IN
  /\ At(p, "cancel", "findEvent")
  /\ req' = Set(p, IF EventExists(q.event) THEN [q EXCEPT !.pc = "saveEvent"]
                   ELSE Respond(q, "ServerError"))
  /\ UNCHANGED <<events, regs, now, lim>>

\* CancelSaveEvent with a seat given back on the event itself, beside the
\* recount; C24 fails of it.
CancelSaveEvent_giveBack(p) ==
  LET q == req[p] IN
  /\ At(p, "cancel", "saveEvent")
  /\ events' = IF EventExists(q.event)
                THEN [events EXCEPT ![q.event].totalSeats = @ + 1] ELSE events
  /\ req' = Set(p, IF EventExists(q.event) THEN Respond(q, "Cancelled")
                   ELSE Respond(q, "ServerError"))
  /\ UNCHANGED <<regs, now, lim>>

\* await event.save(), as in registerForEvent; then the 200 response.
CancelSaveEvent(p) ==
  LET q == req[p] IN
  /\ At(p, "cancel", "saveEvent")
  /\ req' = Set(p, IF EventExists(q.event) THEN Respond(q, "Cancelled")
                   ELSE Respond(q, "ServerError"))
  /\ UNCHANGED <<events, regs, now, lim>>

\* ------------------------------------------------ updateRegistrationStatus
\* The admin middleware in front of the admin routes: only role admin passes.
isAdmin(u) == roleOf(u) = "admin"

\* validStatus without the test; C16 fails of it.
validStatus_any(s) == TRUE

\* ['confirmed', 'cancelled', 'waitlisted'].includes(status)
validStatus(s) == s \in ValidStatuses

\* The admin middleware, the status check, then const registration = await
\* Registration.findById(req.params.id); registration.status = status is set in
\* memory before save() is awaited.  An answer given before req.body.status or
\* req.params.id is read does not depend on it.
updateStatusEntry(q) ==
  IF ~isAdmin(q.user) THEN Respond([q EXCEPT !.reg = 0, !.status = ""], "NotAdmin")
  ELSE IF ~validStatus(q.status) THEN Respond([q EXCEPT !.reg = 0], "InvalidStatus")
  ELSE IF ~RegExists(q.reg) THEN Respond(q, "NotFound")
  ELSE [q EXCEPT !.pc = "saveReg", !.loaded = regs[q.reg].status,
                 !.event = regs[q.reg].event]

\* PUT /api/registrations/:id/status by caller u with body {status: s}.
updateRegistrationStatus(p, u, r, s) ==
  /\ CanStart(p)
  /\ req' = Set(p, updateStatusEntry(NewReq("setStatus", u, 0, r, s, FALSE, 0)))
  /\ UNCHANGED <<events, regs, now, lim>>

\* statusSaved with the date stamped as registerForEvent stamps it on
\* re-activation; C27 fails of it.
statusSaved_stamped(rec, loaded, s) ==
  [rec EXCEPT !.status = s, !.registrationDate = now]

\* statusSaved with the test of the modified path inverted; C10 fails of it.
statusSaved_inverted(rec, loaded, s) ==
  IF loaded = s THEN [rec EXCEPT !.status = s] ELSE rec

\* await registration.save() writes the modified paths only: status is written
\* when the assignment changed the value the document was loaded with.
statusSaved(rec, loaded, s) == IF loaded # s THEN [rec EXCEPT !.status = s] ELSE rec

\* save(), then the two populate() reads and the 200 response.
UpdStatusSave(p) ==
  LET q == req[p] IN
  /\ At(p, "setStatus", "saveReg")
  /\ regs' = [regs EXCEPT ![q.reg] = statusSaved(regs[q.reg], q.loaded, q.status)]
  /\ req' = Set(p, Respond(q, "Updated"))
  /\ UNCHANGED <<events, now, lim>>

\* ------------------------------------------------------------- createEvent
\* if (!finalTotalSeats || finalTotalSeats < 1) 400; the schema's min: 1 says
\* the same of the document Event.create validates.
seatsRejected(n) == n = 0 \/ n < 1

\* POST /api/events with body {totalSeats: n}, behind the admin middleware: one
\* database operation, Event.create.
createEvent(p, n) ==
  /\ CanStart(p)
  /\ Len(events) < lim.live
  /\ LET q == NewReq("createEvent", NUsers, 0, 0, "", TRUE, n) IN
     IF seatsRejected(n)
       THEN req' = Set(p, Respond(q, "InvalidInput")) /\ events' = events
     ELSE /\ events' = Append(events, [exists |-> TRUE, totalSeats |-> n])
          /\ req' = Set(p, Respond([q EXCEPT !.event = Len(events) + 1], "EventCreated"))
  /\ UNCHANGED <<regs, now, lim>>

\* ------------------------------------------------------------- updateEvent
\* canModifyEvent: hasStarted = new Date(`${event.date}T${event.time}`) <= new
\* Date().  event.date is a Date, so the template text is its toString() form
\* followed by "T" and the time, which does not parse: the Invalid Date compares
\* false with everything.
hasStarted == FALSE

\* validateEventData(req.body, true) of a body that carries totalSeats alone:
\* data.totalSeats && (isNaN(data.totalSeats) || data.totalSeats < 1).
validateEventData(has, n) == ~(has /\ n # 0 /\ n < 1)

\* canModifyEvent (Event.findById, then Registration.exists, which only words the
\* message) and validateEventData.
updateEventEntry(q) ==
  IF ~EventExists(q.event) \/ hasStarted THEN Respond(q, "NotFound")
  ELSE IF ~validateEventData(q.has, q.seats) THEN Respond(q, "InvalidInput")
  ELSE [q EXCEPT !.pc = "find"]

\* PUT /api/events/:id, behind the admin middleware; the body gives totalSeats =
\* n when has, and no totalSeats otherwise.
updateEvent(p, e, has, n) ==
  /\ CanStart(p)
  /\ has \/ n = 0
  /\ req' = Set(p, updateEventEntry(NewReq("updateEvent", NUsers, e, 0, "", has, n)))
  /\ UNCHANGED <<events, regs, now, lim>>

\* if (updates.totalSeats): the count is made for a truthy value only.
countsSeats(has, n) == has /\ n # 0

\* let event = await Event.findById(eventId).  Without a capacity check the
\* handler goes on to Object.assign(event, updates), which throws on null.
UpdEvFind(p) ==
  LET q  == req[p]
      ld == IF EventExists(q.event) THEN "event" ELSE "null"
      ts == IF EventExists(q.event) THEN events[q.event].totalSeats ELSE 0
  IN
  /\ At(p, "updateEvent", "find")
  /\ req' = Set(p, IF countsSeats(q.has, q.seats)
                     THEN [q EXCEPT !.pc = "count", !.loaded = ld, !.ev = ts]
                   ELSE IF ld = "null" THEN Respond(q, "ServerError")
                   ELSE [q EXCEPT !.pc = "save", !.loaded = ld, !.ev = ts])
  /\ UNCHANGED <<events, regs, now, lim>>

\* belowCount with <= in the place of <; C12 fails of it.
belowCount_orEqual(n, count) == n <= count

\* if (updates.totalSeats < registrationCount) 400
belowCount(n, count) == n < count

\* const registrationCount = await Registration.countDocuments({event, status:
\* 'confirmed'}), the capacity check, then Object.assign(event, updates).
UpdEvCount(p) ==
  LET q == req[p] IN
  /\ At(p, "updateEvent", "count")
  /\ req' = Set(p, IF belowCount(q.seats, confirmedCount(q.event))
                     THEN Respond(q, "CapacityConflict")
                   ELSE IF q.loaded = "null" THEN Respond(q, "ServerError")
                   ELSE [q EXCEPT !.pc = "save"])
  /\ UNCHANGED <<events, regs, now, lim>>

\* belowMin without the validator; C17 fails of it.
belowMin_unchecked(n) == FALSE

\* eventSchema: totalSeats: {min: [1, 'Total seats must be at least 1']}
belowMin(n) == n < 1

\* const updatedEvent = await event.save(): the schema's min: 1 rejects a
\* totalSeats below 1 (ValidationError), a vanished document rejects
\* (DocumentNotFoundError); both end in the catch block's 500.  Otherwise the
\* modified path totalSeats is written.
UpdEvSave(p) ==
  LET q == req[p] IN
  /\ At(p, "updateEvent", "save")
  /\ IF (q.has /\ belowMin(q.seats)) \/ ~EventExists(q.event)
       THEN req' = Set(p, Respond(q, "ServerError")) /\ events' = events
       ELSE /\ events' = IF q.has THEN [events EXCEPT ![q.event].totalSeats = q.seats]
                         ELSE events
            /\ req' = Set(p, [q EXCEPT !.pc = "recount",
                                       !.ev = IF q.has THEN q.seats ELSE q.ev])
  /\ UNCHANGED <<regs, now, lim>>

\* const confirmedRegistrations = await Registration.countDocuments(...), then
\* 200 with availableSeats: updatedEvent.totalSeats - confirmedRegistrations,
\* updatedEvent being the document as it was saved.
UpdEvRecount(p) ==
  LET q == req[p] IN
  /\ At(p, "updateEvent", "recount")
  /\ req' = Set(p, Reply(q, "EventUpdated",
                         [NoOut EXCEPT !.availableSeats = q.ev - confirmedCount(q.event)]))
  /\ UNCHANGED <<events, regs, now, lim>>

\* ------------------------------------------------------------- deleteEvent
\* const event = await Event.findById(req.params.id); if (!event) 404
deleteEventEntry(q) ==
  IF ~EventExists(q.event) THEN Respond(q, "NotFound")
  ELSE [q EXCEPT !.pc = "count"]

\* DELETE /api/events/:id, behind the admin middleware.
deleteEvent(p, e) ==
  /\ CanStart(p)
  /\ req' = Set(p, deleteEventEntry(NewReq("deleteEvent", NUsers, e, 0, "", FALSE, 0)))
  /\ UNCHANGED <<events, regs, now, lim>>

\* const registrations = await Registration.countDocuments({event: event._id});
\* if (registrations > 0) 400
DelCount(p) ==
  LET q == req[p] IN
  /\ At(p, "deleteEvent", "count")
  /\ req' = Set(p, IF registrationCount(q.event) > 0 THEN Respond(q, "HasRegistrations")
                   ELSE [q EXCEPT !.pc = "delete"])
  /\ UNCHANGED <<events, regs, now, lim>>

\* await event.deleteOne()
DelDelete(p) ==
  LET q == req[p] IN
  /\ At(p, "deleteEvent", "delete")
  /\ events' = [events EXCEPT ![q.event] = Deleted]
  /\ req' = Set(p, Respond(q, "EventRemoved"))
  /\ UNCHANGED <<regs, now, lim>>

\* ------------------------------------------------------- hasAvailableSeats
\* const event = await Event.findById(eventId); if (!event) {success: false}
hasSeatsEntry(q) ==
  IF ~EventExists(q.event) THEN Respond(q, "NotFound")
  ELSE [q EXCEPT !.pc = "count", !.ev = events[q.event].totalSeats]

\* hasAvailableSeats(e, k) of utils/eventValidation.js: a call, up to its first
\* database operation.
hasAvailableSeats(p, e, k) ==
  /\ CanStart(p)
  /\ req' = Set(p, hasSeatsEntry(NewReq("hasSeats", 0, e, 0, "", TRUE, k)))
  /\ UNCHANGED <<events, regs, now, lim>>

\* seatsSuffice with > in the place of >=; C18 fails of it.
seatsSuffice_strict(available, requested) == available > requested

\* success: availableSeats >= requestedSeats
seatsSuffice(available, requested) == available >= requested

\* const registeredCount = await Registration.countDocuments({event, status:
\* 'confirmed'}); availableSeats = event.totalSeats - registeredCount; the
\* result {success, availableSeats, message}.
HasSeatsCount(p) ==
  LET q == req[p]
      a == q.ev - confirmedCount(q.event)
  IN
  /\ At(p, "hasSeats", "count")
  /\ req' = Set(p, Reply(q, "Availability",
                         [NoOut EXCEPT !.ok = seatsSuffice(a, q.seats),
                                       !.availableSeats = a]))
  /\ UNCHANGED <<events, regs, now, lim>>

\* ------------------------------------------------------------ getEventById
\* const event = await Event.findById(req.params.id); if (!event) return 404
getEventByIdEntry(q) ==
  IF ~EventExists(q.event) THEN Respond(q, "NotFound")
  ELSE [q EXCEPT !.pc = "count", !.ev = events[q.event].totalSeats]

\* GET /api/events/:id, up to its first database operation.
getEventById(p, e) ==
  /\ CanStart(p)
  /\ req' = Set(p, getEventByIdEntry(NewReq("getEventById", 0, e, 0, "", FALSE, 0)))
  /\ UNCHANGED <<events, regs, now, lim>>

\* seatsLeft without the subtraction of the count; C19 fails of it.
seatsLeft_total(totalSeats, confirmed) == totalSeats

\* availableSeats: event.totalSeats - confirmedRegistrations
seatsLeft(totalSeats, confirmed) == totalSeats - confirmed

\* const confirmedRegistrations = await Registration.countDocuments({event,
\* status: 'confirmed'}); the response is the event with availableSeats.
GetByIdCount(p) ==
  LET q == req[p] IN
  /\ At(p, "getEventById", "count")
  /\ req' = Set(p, Reply(q, "Event",
                         [NoOut EXCEPT !.totalSeats = q.ev,
                                       !.availableSeats =
                                          seatsLeft(q.ev, confirmedCount(q.event))]))
  /\ UNCHANGED <<events, regs, now, lim>>

\* --------------------------------------------------------------- getEvents
\* The events Event.find({}) returns, each with its totalSeats: a request
\* without title or date filter, whose first page holds every event.
allEvents == [e \in {i \in DOMAIN events : events[i].exists} |-> events[e].totalSeats]

\* GET /api/events, up to its first database operation:
\* const total = await Event.countDocuments(filter)
getEvents(p) ==
  /\ CanStart(p)
  /\ req' = Set(p, [NewReq("getEvents", 0, 0, 0, "", FALSE, 0) EXCEPT
                      !.pc = "find", !.count = Cardinality(DOMAIN allEvents)])
  /\ UNCHANGED <<events, regs, now, lim>>

\* The response of getEvents, once every event of the page has its count.
eventsReply(q, list) ==
  Reply(q, "Events", [NoOut EXCEPT !.total = q.count, !.events = list])

\* const events = await Event.find(filter)...; Promise.all over no event
\* answers at once.
GetEventsFind(p) ==
  LET q == req[p] IN
  /\ At(p, "getEvents", "find")
  /\ req' = Set(p, IF DOMAIN allEvents = {} THEN eventsReply(q, << >>)
                   ELSE [q EXCEPT !.pc = "counts", !.found = allEvents])
  /\ UNCHANGED <<events, regs, now, lim>>

\* One of the queries of the Promise.all is answered: const
\* confirmedRegistrations = await Registration.countDocuments({event: event._id,
\* status: 'confirmed'}); availableSeats: event.totalSeats -
\* confirmedRegistrations.  The response follows the last of them.
GetEventsCount(p, e) ==
  LET q == req[p]
      list == [i \in DOMAIN q.out.events \cup {e} |->
                 IF i = e
                   THEN [totalSeats |-> q.found[e],
                         availableSeats |-> seatsLeft(q.found[e], confirmedCount(e))]
                 ELSE q.out.events[i]]
  IN
  /\ At(p, "getEvents", "counts")
  /\ e \in DOMAIN q.found \ DOMAIN q.out.events
  /\ req' = Set(p, IF DOMAIN list = DOMAIN q.found THEN eventsReply(q, list)
                   ELSE [q EXCEPT !.out.events = list])
  /\ UNCHANGED <<events, regs, now, lim>>

\* ----------------------------------------------------------- getEventStats
\* const event = await Event.findById(req.params.id); if (!event) return 404
getEventStatsEntry(q) ==
  IF ~EventExists(q.event) THEN Respond(q, "NotFound")
  ELSE [q EXCEPT !.pc = "count", !.ev = events[q.event].totalSeats]

\* GET /api/events/:id/stats, up to its first database operation.
getEventStats(p, e) ==
  /\ CanStart(p)
  /\ req' = Set(p, getEventStatsEntry(NewReq("getEventStats", 0, e, 0, "", FALSE, 0)))
  /\ UNCHANGED <<events, regs, now, lim>>

\* const totalRegistrations = await Registration.countDocuments({event, status:
\* 'confirmed'})
StatsCount(p) ==
  LET q == req[p] IN
  /\ At(p, "getEventStats", "count")
  /\ req' = Set(p, [q EXCEPT !.pc = "cancelled", !.count = confirmedCount(q.event)])
  /\ UNCHANGED <<events, regs, now, lim>>

\* Registration.countDocuments({event: e, status: 'cancelled'})
cancelledCount(e) ==
  Cardinality({r \in DOMAIN regs : regs[r].event = e /\ regs[r].status = "cancelled"})

\* occupancyRate: (totalRegistrations / event.totalSeats) * 100
occupancyRate(totalRegistrations, totalSeats) ==
  fmul(fdiv(totalRegistrations, totalSeats), 100)

\* const cancellations = await Registration.countDocuments({event, status:
\* 'cancelled'}); the response {totalSeats, totalRegistrations, cancellations,
\* availableSeats, occupancyRate}.
StatsCancelled(p) ==
  LET q == req[p] IN
  /\ At(p, "getEventStats", "cancelled")
  /\ req' = Set(p, Reply(q, "Stats",
                         [NoOut EXCEPT !.totalSeats = q.ev,
                                       !.totalRegistrations = q.count,
                                       !.cancellations = cancelledCount(q.event),
                                       !.availableSeats = seatsLeft(q.ev, q.count),
                                       !.occupancyRate = occupancyRate(q.count, q.ev)]))
  /\ UNCHANGED <<events, regs, now, lim>>

\* --------------------------------------------------- checkRegistrationStatus
\* registered: registration.status === 'confirmed'
isRegistered(status) == status = "confirmed"

\* const registration = await Registration.findOne({user, event}); without one
\* the response is {registered: false}, with one {registered, status,
\* registrationId, registrationDate}.
checkEntry(q) ==
  LET r == findOne(q.user, q.event) IN
  IF r = 0 THEN Reply(q, "Status", NoOut)
  ELSE Reply(q, "Status",
             [NoOut EXCEPT !.registered = isRegistered(regs[r].status),
                           !.status = regs[r].status,
                           !.registrationId = r,
                           !.registrationDate = regs[r].registrationDate])

\* GET /api/registrations/check/:eventId by the authenticated user u.
checkRegistrationStatus(p, u, e) ==
  /\ CanStart(p)
  /\ req' = Set(p, checkEntry(NewReq("checkStatus", u, e, 0, "", FALSE, 0)))
  /\ UNCHANGED <<events, regs, now, lim>>

\* ----------------------------------------------------------- specification
SeatInputs == (0 - 1)..MaxSeats

\* The numbers of seats a caller of hasAvailableSeats asks for.
RequestedSeats == 1..MaxSeats

\* The general specification: every request, by every caller, in every order.
Next ==
  \E p \in Procs :
    \/ \E u \in Registrants, e \in EventIds : registerForEvent(p, u, e)
    \/ RegFindOne(p)
    \/ RegSaveReg(p)
    \/ RegCount(p)
    \/ RegCreate(p)
    \/ RegSaveEvent(p)
    \/ \E u \in Users, r \in RegIds : cancelRegistration(p, u, r)
    \/ CancelSave(p)
    \/ CancelFindEvent(p)
    \/ CancelSaveEvent(p)
    \/ \E u \in Users, r \in RegIds, s \in StatusInputs : updateRegistrationStatus(p, u, r, s)
    \/ UpdStatusSave(p)
    \/ \E n \in SeatInputs : createEvent(p, n)
    \/ \E e \in EventIds, has \in BOOLEAN, n \in SeatInputs : updateEvent(p, e, has, n)
    \/ UpdEvFind(p)
    \/ UpdEvCount(p)
    \/ UpdEvSave(p)
    \/ UpdEvRecount(p)
    \/ \E e \in EventIds : deleteEvent(p, e)
    \/ DelCount(p)
    \/ DelDelete(p)
    \/ \E e \in EventIds, k \in RequestedSeats : hasAvailableSeats(p, e, k)
    \/ HasSeatsCount(p)
    \/ \E e \in EventIds : getEventById(p, e)
    \/ GetByIdCount(p)
    \/ getEvents(p)
    \/ GetEventsFind(p)
    \/ \E e \in EventIds : GetEventsCount(p, e)
    \/ \E e \in EventIds : getEventStats(p, e)
    \/ StatsCount(p)
    \/ StatsCancelled(p)
    \/ \E u \in Users, e \in EventIds : checkRegistrationStatus(p, u, e)
    \/ Return(p)

Spec == Init /\ [][Next]_vars

\* The race for the last seat: an event with one seat and no registration, and
\* one register request per slot, slot p serving user p, so N requests by
\* distinct users with no record; the answers stay in the slots.
InitRace ==
  /\ events = << [exists |-> TRUE, totalSeats |-> 1] >>
  /\ regs = << >>
  /\ now = 1
  /\ req = [p \in Procs |-> Idle]
  /\ lim = [flight |-> NProcs, live |-> 1, regs |-> NProcs, clock |-> NProcs,
            keep |-> TRUE]

NextRace ==
  \E p \in Procs :
    \/ registerForEvent(p, p, 1)
    \/ RegFindOne(p)
    \/ RegCount(p)
    \/ RegCreate(p)
    \/ RegSaveEvent(p)

SpecRace == InitRace /\ [][NextRace]_vars

\* The executions without administrative override: registerForEvent and
\* cancelRegistration by every caller, and the management of the events, but no
\* updateRegistrationStatus.
NextNoOverride ==
  \E p \in Procs :
    \/ \E u \in Registrants, e \in EventIds : registerForEvent(p, u, e)
    \/ RegFindOne(p)
    \/ RegSaveReg(p)
    \/ RegCount(p)
    \/ RegCreate(p)
    \/ RegSaveEvent(p)
    \/ \E u \in Users, r \in RegIds : cancelRegistration(p, u, r)
    \/ CancelSave(p)
    \/ CancelFindEvent(p)
    \/ CancelSaveEvent(p)
    \/ \E n \in SeatInputs : createEvent(p, n)
    \/ \E e \in EventIds, has \in BOOLEAN, n \in SeatInputs : updateEvent(p, e, has, n)
    \/ UpdEvFind(p)
    \/ UpdEvCount(p)
    \/ UpdEvSave(p)
    \/ UpdEvRecount(p)
    \/ \E e \in EventIds : deleteEvent(p, e)
    \/ DelCount(p)
    \/ DelDelete(p)
    \/ Return(p)

SpecNoOverride == Init /\ [][NextNoOverride]_vars

\* The scenario of the two seats: one event with totalSeats = 2 and no
\* registration, then registerForEvent and cancelRegistration requests by every
\* user, one after the other; each user may come to hold a record.
InitScenario ==
  /\ events = << [exists |-> TRUE, totalSeats |-> 2] >>
  /\ regs = << >>
  /\ now = 1
  /\ req = [p \in Procs |-> Idle]
  /\ lim = [flight |-> 1, live |-> 1, regs |-> NUsers, clock |-> NUsers,
            keep |-> FALSE]

NextScenario ==
  \E p \in Procs :
    \/ \E u \in Registrants, e \in EventIds : registerForEvent(p, u, e)
    \/ RegFindOne(p)
    \/ RegSaveReg(p)
    \/ RegCount(p)
    \/ RegCreate(p)
    \/ RegSaveEvent(p)
    \/ \E u \in Users, r \in RegIds : cancelRegistration(p, u, r)
    \/ CancelSave(p)
    \/ CancelFindEvent(p)
    \/ CancelSaveEvent(p)
    \/ Return(p)

SpecScenario == InitScenario /\ [][NextScenario]_vars

\* The lowering of totalSeats beside registrations: an event with two seats and
\* one confirmed registration, by user 1; slot 1 serves one updateEvent that
\* carries totalSeats, every other slot p a registerForEvent by user p; all of
\* them may be in flight together, and the answers stay in the slots.
InitLower ==
  /\ events = << [exists |-> TRUE, totalSeats |-> 2] >>
  /\ regs = << NewRegistration(1, 1, 1) >>
  /\ now = 2
  /\ req = [p \in Procs |-> Idle]
  /\ lim = [flight |-> NProcs, live |-> 1, regs |-> NProcs, clock |-> NProcs,
            keep |-> TRUE]

NextLower ==
  \E p \in Procs :
    \/ \E n \in 1..2 : p = 1 /\ updateEvent(p, 1, TRUE, n)
    \/ UpdEvFind(p)
    \/ UpdEvCount(p)
    \/ UpdEvSave(p)
    \/ UpdEvRecount(p)
    \/ p > 1 /\ registerForEvent(p, p, 1)
    \/ RegFindOne(p)
    \/ RegCount(p)
    \/ RegCreate(p)
    \/ RegSaveEvent(p)

SpecLower == InitLower /\ [][NextLower]_vars

\* The deletion of an event beside registrations: an event with two seats and
\* no registration; slot 1 serves one deleteEvent, every other slot p a
\* registerForEvent by user p; all of them may be in flight together, and the
\* answers stay in the slots.
InitDelete ==
  /\ events = << [exists |-> TRUE, totalSeats |-> 2] >>
  /\ regs = << >>
  /\ now = 1
  /\ req = [p \in Procs |-> Idle]
  /\ lim = [flight |-> NProcs, live |-> 1, regs |-> NProcs, clock |-> NProcs,
            keep |-> TRUE]

NextDelete ==
  \E p \in Procs :
    \/ p = 1 /\ deleteEvent(p, 1)
    \/ DelCount(p)
    \/ DelDelete(p)
    \/ p > 1 /\ registerForEvent(p, p, 1)
    \/ RegFindOne(p)
    \/ RegCount(p)
    \/ RegCreate(p)
    \/ RegSaveEvent(p)

SpecDelete == InitDelete /\ [][NextDelete]_vars

\* The cancels of one registration: an event with two seats and the confirmed
\* registration 1 of user 1; every slot serves a cancelRegistration of it, by
\* any caller; all of them may be in flight together, and the answers stay in
\* the slots.
InitCancel ==
  /\ events = << [exists |-> TRUE, totalSeats |-> 2] >>
  /\ regs = << NewRegistration(1, 1, 1) >>
  /\ now = 2
  /\ req = [p \in Procs |-> Idle]
  /\ lim = [flight |-> NProcs, live |-> 1, regs |-> 1, clock |-> 2, keep |-> TRUE]

NextCancel ==
  \E p \in Procs :
    \/ \E u \in Users : cancelRegistration(p, u, 1)
    \/ CancelSave(p)
    \/ CancelFindEvent(p)
    \/ CancelSaveEvent(p)

SpecCancel == InitCancel /\ [][NextCancel]_vars

\* The cancels of one registration in each of its statuses: an event with two
\* seats and the confirmed registration 1 of user 1; the requests are
\* cancelRegistration of it by any caller and updateRegistrationStatus of it by
\* the admin; the answers stay in the slots.
InitStatuses ==
  /\ events = << [exists |-> TRUE, totalSeats |-> 2] >>
  /\ regs = << NewRegistration(1, 1, 1) >>
  /\ now = 2
  /\ req = [p \in Procs |-> Idle]
  /\ lim = [flight |-> NProcs, live |-> 1, regs |-> 1, clock |-> 2, keep |-> TRUE]

NextStatuses ==
  \E p \in Procs :
    \/ \E u \in Users : cancelRegistration(p, u, 1)
    \/ CancelSave(p)
    \/ CancelFindEvent(p)
    \/ CancelSaveEvent(p)
    \/ \E st \in ValidStatuses : updateRegistrationStatus(p, NUsers, 1, st)
    \/ UpdStatusSave(p)

SpecStatuses == InitStatuses /\ [][NextStatuses]_vars

\* Two events side by side: event 1 with one seat and event 2 with two, no
\* registration; then registerForEvent, cancelRegistration and
\* updateRegistrationStatus requests, one after the other, for either event.
InitTwoEvents ==
  /\ events = << [exists |-> TRUE, totalSeats |-> 1],
                 [exists |-> TRUE, totalSeats |-> 2] >>
  /\ regs = << >>
  /\ now = 1
  /\ req = [p \in Procs |-> Idle]
  /\ lim = [flight |-> 1, live |-> 2, regs |-> NUsers, clock |-> NUsers,
            keep |-> FALSE]

NextTwoEvents ==
  \E p \in Procs :
    \/ \E u \in Registrants, e \in EventIds : registerForEvent(p, u, e)
    \/ RegFindOne(p)
    \/ RegSaveReg(p)
    \/ RegCount(p)
    \/ RegCreate(p)
    \/ RegSaveEvent(p)
    \/ \E u \in Users, r \in RegIds : cancelRegistration(p, u, r)
    \/ CancelSave(p)
    \/ CancelFindEvent(p)
    \/ CancelSaveEvent(p)
    \/ \E u \in Users, r \in RegIds, st \in StatusInputs :
         updateRegistrationStatus(p, u, r, st)
    \/ UpdStatusSave(p)
    \/ Return(p)

SpecTwoEvents == InitTwoEvents /\ [][NextTwoEvents]_vars

\* ------------------------------------------------------------------ claims
\* The request in slot p, a call of op, has been answered.
Done(p, op) == req[p].op = op /\ req[p].pc = "done"

Answered(p, op, res) == Done(p, op) /\ req[p].result = res

\* The two collections are as they were when the request in slot p arrived.
Untouched(p) == regs = req[p].pre.regs /\ events = req[p].pre.events

\* The records other than r are as they were when the request in slot p arrived.
OthersUntouched(p, r) ==
  /\ Len(regs) = Len(req[p].pre.regs)
  /\ \A o \in DOMAIN regs : o # r => regs[o] = req[p].pre.regs[o]

\* availableSeats of event e when the request in slot p arrived.
seatsBefore(p, e) ==
  req[p].pre.events[e].totalSeats - countConfirmed(req[p].pre.regs, e)

existedBefore(p, e) == e \in DOMAIN req[p].pre.events /\ req[p].pre.events[e].exists

\* The record registerForEvent found for the caller and the event of the
\* request in slot p when the request arrived (0 when there was none).
recordBefore(p) == firstMatch(req[p].pre.regs, req[p].user, req[p].event)

statusBefore(p, r) == req[p].pre.regs[r].status

\* The caller of the request in slot p owns record r or is an admin.
ownerOrAdmin(p, r) ==
  req[p].pre.regs[r].user = req[p].user \/ roleOf(req[p].user) = "admin"

\* C1: in every reachable state, every event that exists has
\* availableSeats = totalSeats - confirmedCount >= 0.
C1_SeatsNeverOverbooked ==
  \A e \in DOMAIN events : EventExists(e) => availableSeats(e) >= 0

\* C2: with totalSeats = 1 and NProcs concurrent register requests by distinct
\* users without a record, once all are answered exactly one is Confirmed (a
\* record was created for it) and the others failed with Full.
C2_ExactlyOneConfirmed ==
  (\A p \in Procs : Done(p, "register")) =>
    /\ Cardinality({p \in Procs : req[p].result = "Created"}) = 1
    /\ Cardinality({p \in Procs : req[p].result = "Full"}) = NProcs - 1
    /\ confirmedCount(1) = 1

\* C3: a register by a user whose record for the event is Cancelled makes the
\* record Confirmed only if the event exists and has availableSeats >= 1; when
\* the event is full it fails with Full and the record stays Cancelled.
C3_ReactivationNeedsSeat ==
  \A p \in Procs :
    (Done(p, "register") /\ recordBefore(p) # 0
       /\ statusBefore(p, recordBefore(p)) = "cancelled") =>
      /\ regs[recordBefore(p)].status = "confirmed" =>
           existedBefore(p, req[p].event) /\ seatsBefore(p, req[p].event) >= 1
      /\ (existedBefore(p, req[p].event) /\ seatsBefore(p, req[p].event) < 1) =>
           req[p].result = "Full" /\ regs[recordBefore(p)].status = "cancelled"

\* C4: in every reachable state there is at most one registration record for
\* each pair of a user and an event.
C4_OneRecordPerPair ==
  \A r1, r2 \in DOMAIN regs :
    (regs[r1].user = regs[r2].user /\ regs[r1].event = regs[r2].event) => r1 = r2

\* C5: a register by a user who has a Confirmed record for the event is
\* answered AlreadyRegistered, and no event and no registration record is
\* changed.
C5_ConfirmedRegisterRejected ==
  \A p \in Procs :
    (Done(p, "register")
       /\ \E r \in Matching(req[p].pre.regs, req[p].user, req[p].event) :
            statusBefore(p, r) = "confirmed") =>
      req[p].result = "AlreadyRegistered" /\ Untouched(p)

\* C6: a register that succeeds on a cancelled record reuses that record: the
\* id answered is the id of the record that was Cancelled, the number of records
\* is unchanged, the record is Confirmed, no other record is changed, and its
\* registrationDate is the reading of the clock taken by this request, strictly
\* later than the date the record had.
C6_ReactivationReusesRecord ==
  \A p \in Procs :
    Answered(p, "register", "Reactivated") =>
      /\ req[p].reg = recordBefore(p)
      /\ statusBefore(p, req[p].reg) = "cancelled"
      /\ OthersUntouched(p, req[p].reg)
      /\ regs[req[p].reg].status = "confirmed"
      /\ regs[req[p].reg].user = req[p].user
      /\ regs[req[p].reg].event = req[p].event
      /\ regs[req[p].reg].registrationDate = now - 1
      /\ regs[req[p].reg].registrationDate > req[p].pre.regs[req[p].reg].registrationDate

C6_Witness ==
  \E p \in Procs :
    /\ Answered(p, "register", "Reactivated")
    /\ Len(regs) = 2
    /\ regs[req[p].reg].registrationDate > req[p].pre.regs[req[p].reg].registrationDate

\* C7 as stated: every cancel that succeeds leaves availableSeats of the event
\* exactly 1 higher than it was before the call, whatever status the record
\* had when the cancel was accepted.
C7_CancelFreesOneSeat ==
  \A p \in Procs :
    Answered(p, "cancel", "Cancelled") =>
      availableSeats(req[p].event) = seatsBefore(p, req[p].event) + 1

\* C7 as the code has it: a cancel that succeeds leaves the record Cancelled;
\* availableSeats of the event is exactly 1 higher than before the call when the
\* record was Confirmed, and unchanged when it was Waitlisted.
C7_CancelFreesSeatOfConfirmed ==
  \A p \in Procs :
    Answered(p, "cancel", "Cancelled") =>
      /\ regs[req[p].reg].status = "cancelled"
      /\ statusBefore(p, req[p].reg) \in {"confirmed", "waitlisted"}
      /\ availableSeats(req[p].event) =
           seatsBefore(p, req[p].event)
             + (IF statusBefore(p, req[p].reg) = "confirmed" THEN 1 ELSE 0)

C7_Witness ==
  \E p \in Procs :
    /\ Answered(p, "cancel", "Cancelled")
    /\ statusBefore(p, req[p].reg) = "waitlisted"
    /\ availableSeats(req[p].event) = seatsBefore(p, req[p].event)

\* C8: a cancel of a record that is already Cancelled, by its owner or an
\* admin, is answered AlreadyCancelled; the record's status and
\* registrationDate and the event's availableSeats are unchanged.
C8_CancelledCancelRejected ==
  \A p \in Procs :
    (Done(p, "cancel") /\ req[p].reg \in DOMAIN req[p].pre.regs
       /\ statusBefore(p, req[p].reg) = "cancelled" /\ ownerOrAdmin(p, req[p].reg)) =>
      /\ req[p].result = "AlreadyCancelled"
      /\ Untouched(p)
      /\ availableSeats(req[p].event) = seatsBefore(p, req[p].event)

C8_Witness ==
  \E p \in Procs :
    /\ Answered(p, "cancel", "AlreadyCancelled")
    /\ statusBefore(p, req[p].reg) = "cancelled"
    /\ roleOf(req[p].user) = "admin"
    /\ req[p].pre.regs[req[p].reg].user # req[p].user

\* C9: a cancel by a caller who is neither the owner of the record nor an admin
\* is answered Forbidden and changes nothing; only the owner or an admin is
\* ever answered Cancelled; and an admin's cancel of any user's Confirmed record
\* succeeds and leaves it Cancelled.
C9_CancelNeedsOwnerOrAdmin ==
  \A p \in Procs :
    (Done(p, "cancel") /\ req[p].reg \in DOMAIN req[p].pre.regs) =>
      /\ ~ownerOrAdmin(p, req[p].reg) => req[p].result = "Forbidden" /\ Untouched(p)
      /\ ~Untouched(p) => ownerOrAdmin(p, req[p].reg)
      /\ (roleOf(req[p].user) = "admin" /\ statusBefore(p, req[p].reg) = "confirmed") =>
           req[p].result = "Cancelled" /\ regs[req[p].reg].status = "cancelled"

C9_Witness ==
  \E p \in Procs :
    /\ Answered(p, "cancel", "Cancelled")
    /\ roleOf(req[p].user) = "admin"
    /\ req[p].pre.regs[req[p].reg].user # req[p].user
    /\ statusBefore(p, req[p].reg) = "confirmed"

\* C10: updateRegistrationStatus by an admin with a valid status s on an
\* existing record succeeds whatever status the record has and whatever seats
\* the event has left, and leaves the record with status exactly s and every
\* other record and every event as they were; it succeeds for no other caller
\* and no other status.
C10_AdminSetsAnyStatus ==
  \A p \in Procs :
    Done(p, "setStatus") =>
      /\ (roleOf(req[p].user) = "admin" /\ req[p].status \in ValidStatuses
            /\ req[p].reg \in DOMAIN req[p].pre.regs) =>
           /\ req[p].result = "Updated"
           /\ regs[req[p].reg].status = req[p].status
           /\ regs[req[p].reg].registrationDate =
                req[p].pre.regs[req[p].reg].registrationDate
           /\ OthersUntouched(p, req[p].reg)
           /\ events = req[p].pre.events
      /\ req[p].result = "Updated" =>
           roleOf(req[p].user) = "admin" /\ req[p].status \in ValidStatuses

C10_Witness ==
  \E p \in Procs :
    /\ Answered(p, "setStatus", "Updated")
    /\ statusBefore(p, req[p].reg) = "cancelled"
    /\ req[p].status = "confirmed"
    /\ seatsBefore(p, req[p].event) = 0
    /\ availableSeats(req[p].event) < 0

C12_CapacityCheckedOnUpdate ==
  \A p \in Procs :
    (Done(p, "updateEvent") /\ existedBefore(p, req[p].event)
       /\ req[p].has /\ req[p].seats >= 1) =>
      LET c == countConfirmed(req[p].pre.regs, req[p].event) IN
      /\ req[p].seats < c => req[p].result = "CapacityConflict" /\ Untouched(p)
      /\ req[p].seats = c =>
           /\ req[p].result = "EventUpdated"
           /\ events[req[p].event].totalSeats = req[p].seats
           /\ regs = req[p].pre.regs
           /\ availableSeats(req[p].event) = 0
           /\ req[p].out.availableSeats = 0

C12_Witness ==
  \E p \in Procs :
    /\ Answered(p, "updateEvent", "EventUpdated")
    /\ req[p].has
    /\ req[p].seats = countConfirmed(req[p].pre.regs, req[p].event)
    /\ req[p].seats < req[p].pre.events[req[p].event].totalSeats
    /\ availableSeats(req[p].event) = 0

\* C13: a deleteEvent of an event that a registration record of any status
\* references is answered HasRegistrations and changes nothing; of an event that
\* no record references it succeeds and the event is gone.
C13_DeleteNeedsNoRegistrations ==
  \A p \in Procs :
    (Done(p, "deleteEvent") /\ existedBefore(p, req[p].event)) =>
      IF \E r \in DOMAIN req[p].pre.regs : req[p].pre.regs[r].event = req[p].event
      THEN req[p].result = "HasRegistrations" /\ Untouched(p)
           /\ EventExists(req[p].event)
      ELSE req[p].result = "EventRemoved" /\ ~EventExists(req[p].event)
           /\ regs = req[p].pre.regs

C13_Witness ==
  \E p \in Procs :
    /\ Answered(p, "deleteEvent", "HasRegistrations")
    /\ countConfirmed(regs, req[p].event) = 0
    /\ \E r \in DOMAIN regs : regs[r].event = req[p].event /\ regs[r].status = "cancelled"
    /\ EventExists(req[p].event)

\* C14: on an event with totalSeats = 2 and no registration, each step of the
\* scenario, taken in the state the step before it leaves, ends as stated: A
\* registers -> Confirmed, availableSeats 1; B registers -> Confirmed,
\* availableSeats 0; C registers -> Full, no record created; A cancels ->
\* availableSeats 1; C registers -> Confirmed, availableSeats 0.  A, B, C are
\* the users 1, 2, 3; the event is event 1.
C14_ScenarioStepByStep ==
  LET rec(u, st, d) == [user |-> u, event |-> 1, status |-> st, registrationDate |-> d]
      S1 == << rec(1, "confirmed", 1) >>
      S2 == << rec(1, "confirmed", 1), rec(2, "confirmed", 2) >>
      S4 == << rec(1, "cancelled", 1), rec(2, "confirmed", 2) >>
      S5 == << rec(1, "cancelled", 1), rec(2, "confirmed", 2), rec(3, "confirmed", 3) >>
      registers(p, u, before) ==
        Done(p, "register") /\ req[p].user = u /\ req[p].event = 1
          /\ req[p].pre.regs = before
      cancels(p, u, r, before) ==
        Done(p, "cancel") /\ req[p].user = u /\ req[p].reg = r
          /\ req[p].pre.regs = before
  IN
  \A p \in Procs :
    /\ registers(p, 1, << >>) =>
         req[p].result = "Created" /\ regs = S1 /\ availableSeats(1) = 1
    /\ registers(p, 2, S1) =>
         req[p].result = "Created" /\ regs = S2 /\ availableSeats(1) = 0
    /\ registers(p, 3, S2) =>
         req[p].result = "Full" /\ regs = S2 /\ availableSeats(1) = 0
    /\ cancels(p, 1, 1, S2) =>
         req[p].result = "Cancelled" /\ regs = S4 /\ availableSeats(1) = 1
    /\ registers(p, 3, S4) =>
         req[p].result = "Created" /\ regs = S5 /\ availableSeats(1) = 0

C14_Witness ==
  \E p \in Procs :
    /\ Answered(p, "register", "Created")
    /\ req[p].user = 3
    /\ req[p].pre.regs =
         << [user |-> 1, event |-> 1, status |-> "cancelled", registrationDate |-> 1],
            [user |-> 2, event |-> 1, status |-> "confirmed", registrationDate |-> 2] >>
    /\ Len(regs) = 3
    /\ regs[3].status = "confirmed"
    /\ availableSeats(1) = 0

\* C15: a register for an event id that does not exist, never created or
\* deleted, is answered NotFound, and no registration record is created or
\* changed, whatever records the caller has.
C15_RegisterMissingEvent ==
  \A p \in Procs :
    (Done(p, "register") /\ ~existedBefore(p, req[p].event)) =>
      req[p].result = "NotFound" /\ Untouched(p)

C15_Witness ==
  \E p \in Procs :
    /\ Answered(p, "register", "NotFound")
    /\ req[p].event \notin DOMAIN events
    /\ \E r \in DOMAIN regs : regs[r].user = req[p].user

\* C16: an admin's updateRegistrationStatus is answered InvalidStatus when the
\* status asked for is not confirmed, cancelled or waitlisted, and NotFound when
\* the status is one of them and the registration id does not exist; neither
\* changes anything, and in every reachable state every record has one of the
\* three statuses.
C16_OnlyValidStatuses ==
  /\ \A r \in DOMAIN regs : regs[r].status \in ValidStatuses
  /\ \A p \in Procs :
       (Done(p, "setStatus") /\ roleOf(req[p].user) = "admin") =>
         /\ req[p].status \notin ValidStatuses =>
              req[p].result = "InvalidStatus" /\ Untouched(p)
         /\ (req[p].status \in ValidStatuses /\ req[p].reg \notin DOMAIN req[p].pre.regs) =>
              req[p].result = "NotFound" /\ Untouched(p)

C16_Witness ==
  \E p \in Procs :
    /\ Answered(p, "setStatus", "InvalidStatus")
    /\ req[p].status \notin ValidStatuses
    /\ Len(regs) > 0

\* C17: in every reachable state every event that exists has totalSeats >= 1;
\* a createEvent or an updateEvent that carries a totalSeats of 0 or less, the
\* update with totalSeats = 0 included, fails and changes nothing.
C17_TotalSeatsAtLeastOne ==
  /\ \A e \in DOMAIN events : EventExists(e) => events[e].totalSeats >= 1
  /\ \A p \in Procs :
       /\ (Done(p, "createEvent") /\ req[p].seats < 1) =>
            req[p].result = "InvalidInput" /\ Untouched(p)
       /\ (Done(p, "updateEvent") /\ req[p].has /\ req[p].seats < 1) =>
            req[p].result \in {"NotFound", "InvalidInput", "ServerError"} /\ Untouched(p)

C17_Witness ==
  \E p \in Procs :
    /\ Answered(p, "updateEvent", "ServerError")
    /\ req[p].has
    /\ req[p].seats = 0
    /\ EventExists(req[p].event)
    /\ events[req[p].event].totalSeats >= 1

\* C18: hasAvailableSeats(e, k) changes nothing; for an event that does not
\* exist it reports NotFound; otherwise it reports availableSeats = totalSeats -
\* confirmedCount of the event and ok = TRUE exactly when that is >= k.
C18_HasAvailableSeats ==
  \A p \in Procs :
    Done(p, "hasSeats") =>
      /\ Untouched(p)
      /\ IF ~existedBefore(p, req[p].event)
         THEN req[p].result = "NotFound" /\ ~req[p].out.ok
         ELSE /\ req[p].result = "Availability"
              /\ req[p].out.availableSeats = availableSeats(req[p].event)
              /\ req[p].out.ok <=> (availableSeats(req[p].event) >= req[p].seats)

C18_Witness ==
  \E p \in Procs :
    /\ Answered(p, "hasSeats", "Availability")
    /\ req[p].out.ok
    /\ req[p].out.availableSeats = req[p].seats
    /\ confirmedCount(req[p].event) > 0

\* The double that follows x (x other than 0).
nextUp(x) ==
  LET r == plusOne(x.m)
  IN IF Len(r) > MantBits THEN [m |-> SubSeq(r, 1, MantBits), e |-> x.e + 1]
     ELSE [m |-> r, e |-> x.e]

\* The doubles x and y are at most three units in the last place apart.
nearlyEqual(x, y) ==
  \/ x = y
  \/ x # Zero /\ y \in {nextUp(x), nextUp(nextUp(x)), nextUp(nextUp(nextUp(x)))}
  \/ y # Zero /\ x \in {nextUp(y), nextUp(nextUp(y)), nextUp(nextUp(nextUp(y)))}

\* occupancyRate * totalSeats = totalRegistrations * 100 of a getEventStats
\* response, the product taken exactly as the response's numbers give it.
occupancyIdentity(out) ==
  fmul(out.occupancyRate, out.totalSeats) = fromInt(out.totalRegistrations * 100)

\* A power of two.
powerOfTwo(n) == \E k \in 0..30 : n = 2^k

\* What the reads of the request in slot p, once answered, report of
\* availableSeats: totalSeats - confirmedCount of the event, in each of
\* getEventById, getEvents, getEventStats, the updateEvent response and
\* hasAvailableSeats; the decision of registerForEvent goes by the same number;
\* getEventStats has totalRegistrations + availableSeats = totalSeats; no event
\* stores the number, and no read changes anything.
readsAgree(p) ==
  LET q == req[p] IN
  /\ Answered(p, "getEventById", "Event") =>
       q.out.availableSeats = availableSeats(q.event) /\ Untouched(p)
  /\ Answered(p, "getEvents", "Events") =>
       /\ DOMAIN q.out.events = {e \in DOMAIN events : EventExists(e)}
       /\ \A e \in DOMAIN q.out.events :
            q.out.events[e].availableSeats = availableSeats(e)
       /\ Untouched(p)
  /\ Answered(p, "getEventStats", "Stats") =>
       /\ q.out.availableSeats = availableSeats(q.event)
       /\ q.out.totalSeats = events[q.event].totalSeats
       /\ q.out.totalRegistrations = confirmedCount(q.event)
       /\ q.out.totalRegistrations + q.out.availableSeats = q.out.totalSeats
       /\ Untouched(p)
  /\ Answered(p, "updateEvent", "EventUpdated") =>
       q.out.availableSeats = availableSeats(q.event)
  /\ Answered(p, "hasSeats", "Availability") =>
       q.out.availableSeats = availableSeats(q.event) /\ Untouched(p)
  /\ Answered(p, "register", "Full") => seatsBefore(p, q.event) <= 0
  /\ Answered(p, "register", "Created") => seatsBefore(p, q.event) >= 1
  /\ \A e \in DOMAIN events : DOMAIN events[e] = {"exists", "totalSeats"}

\* C19 as stated: every read that reports availableSeats returns totalSeats
\* minus the current count of confirmed registrations of the event, in agreement
\* with the count registerForEvent decides Full by, and every getEventStats
\* response has totalRegistrations + availableSeats = totalSeats and
\* occupancyRate * totalSeats = totalRegistrations * 100.
C19_ReadsAgreeExactly ==
  \A p \in Procs :
    /\ readsAgree(p)
    /\ Answered(p, "getEventStats", "Stats") => occupancyIdentity(req[p].out)

\* C19 as the code has it: the reads agree as stated, and occupancyRate is
\* (totalRegistrations / totalSeats) * 100 in double arithmetic, so that
\* occupancyRate * totalSeats = totalRegistrations * 100 holds exactly when
\* totalSeats is a power of two or divides totalRegistrations, and otherwise to
\* within three units in the last place.
C19_ReadsAgree ==
  \A p \in Procs :
    /\ readsAgree(p)
    /\ Answered(p, "getEventStats", "Stats") =>
         LET out == req[p].out IN
         /\ out.occupancyRate = occupancyRate(out.totalRegistrations, out.totalSeats)
         /\ nearlyEqual(fmul(out.occupancyRate, out.totalSeats),
                        fromInt(out.totalRegistrations * 100))
         /\ (powerOfTwo(out.totalSeats) \/ out.totalRegistrations % out.totalSeats = 0) =>
              occupancyIdentity(out)

C19_Witness ==
  \E p \in Procs :
    /\ Answered(p, "getEventStats", "Stats")
    /\ req[p].out.totalSeats = 3
    /\ req[p].out.totalRegistrations = 1
    /\ req[p].out.availableSeats = 2
    /\ ~occupancyIdentity(req[p].out)

\* C20: checkRegistrationStatus(user, event) changes nothing; it reports
\* registered = TRUE exactly when the user has a confirmed registration for the
\* event; when the user has a record for the event it reports the status, id
\* and registrationDate of a record of theirs; when the user has none it reports
\* registered = FALSE and nothing else.
C20_CheckRegistrationStatus ==
  \A p \in Procs :
    Done(p, "checkStatus") =>
      LET q == req[p]
          mine == Matching(regs, q.user, q.event)
      IN
      /\ q.result = "Status"
      /\ Untouched(p)
      /\ q.out.registered <=> \E r \in mine : regs[r].status = "confirmed"
      /\ IF mine = {} THEN q.out = NoOut
         ELSE /\ q.out.registrationId \in mine
              /\ q.out.status = regs[q.out.registrationId].status
              /\ q.out.registrationDate = regs[q.out.registrationId].registrationDate

\* C21: in every step of every execution no registration record is removed:
\* the ids 1..Len(regs) only grow, and the user and the event of every record
\* stay what they were (cancel, re-register and override change the record in
\* place).
C21_RecordsNeverDeleted ==
  [][/\ Len(regs') >= Len(regs)
     /\ \A r \in DOMAIN regs :
          regs'[r].user = regs[r].user /\ regs'[r].event = regs[r].event]_vars

C21_Witness ==
  \E p \in Procs :
    /\ Answered(p, "setStatus", "Updated")
    /\ req[p].reg = 1
    /\ statusBefore(p, 1) = "confirmed"
    /\ regs[1].status = "cancelled"
    /\ regs[1].registrationDate > 1
    /\ regs[1].user = 1
    /\ Len(regs) = 2

\* C22: when an updateEvent that lowers totalSeats of the event to n runs
\* beside registerForEvent requests for the event and is answered with success,
\* then once every request has been answered n >= confirmedCount of the event.
C22_LoweringKeepsCapacity ==
  (InFlight = {} /\ Answered(1, "updateEvent", "EventUpdated")) =>
    /\ events[1].totalSeats = req[1].seats
    /\ req[1].seats >= confirmedCount(1)

\* C23: in every reachable state every registration record references an event
\* that exists, also when a deleteEvent runs beside registerForEvent requests
\* for the same event.
C23_NoOrphanRegistration ==
  \A r \in DOMAIN regs : EventExists(regs[r].event)

\* C24: cancelRegistration requests for one Confirmed registration that run
\* together, in any interleaving, leave it Cancelled and availableSeats of its
\* event exactly 1 higher than before them; at no moment is it 2 higher.
C24_ConcurrentCancelFreesOneSeat ==
  \A p \in Procs :
    (req[p].op = "cancel" /\ req[p].pre.regs[req[p].reg].status = "confirmed") =>
      /\ availableSeats(req[p].event) \in
           {seatsBefore(p, req[p].event), seatsBefore(p, req[p].event) + 1}
      /\ (InFlight = {} /\ req[p].result = "Cancelled") =>
           /\ regs[req[p].reg].status = "cancelled"
           /\ availableSeats(req[p].event) = seatsBefore(p, req[p].event) + 1

C24_Witness ==
  \E p1, p2 \in Procs :
    /\ p1 # p2
    /\ InFlight = {}
    /\ Answered(p1, "cancel", "Cancelled")
    /\ Answered(p2, "cancel", "Cancelled")
    /\ req[p1].user # req[p2].user
    /\ req[p1].pre.regs[1].status = "confirmed"
    /\ req[p2].pre.regs[1].status = "confirmed"
    /\ availableSeats(1) = 2

\* The error responses.
Failures ==
  {"NotFound", "AlreadyRegistered", "Full", "Forbidden", "AlreadyCancelled",
   "InvalidStatus", "NotAdmin", "InvalidInput", "CapacityConflict",
   "HasRegistrations", "ServerError"}

\* C25: a request that is answered with an error has written nothing.  Beside
\* a deleteEvent, where user p registers in slot p only: after a register that
\* failed the records of its caller are those the caller had when it arrived,
\* and after a deleteEvent that failed the events are as they were.
C25_FailureWritesNothing ==
  \A p \in Procs :
    (req[p].pc = "done" /\ req[p].result \in Failures) =>
      /\ req[p].op = "register" =>
           \A r \in DOMAIN regs :
             regs[r].user = req[p].user =>
               r \in DOMAIN req[p].pre.regs /\ regs[r] = req[p].pre.regs[r]
      /\ req[p].op = "deleteEvent" => events = req[p].pre.events

\* C26: a cancelRegistration of an existing registration by a caller who is
\* neither its owner nor an admin is answered Forbidden, with no body and
\* nothing written, whatever the status of the registration: two such requests
\* that found it in different statuses got the same response.
C26_ForbiddenBeforeStatus ==
  \A p1, p2 \in Procs :
    (/\ Done(p1, "cancel") /\ Done(p2, "cancel")
     /\ req[p1].reg = req[p2].reg /\ req[p1].user = req[p2].user
     /\ RegExists(req[p1].reg)
     /\ ~ownerOrAdmin(p1, req[p1].reg)) =>
      /\ req[p1].result = "Forbidden"
      /\ req[p2].result = req[p1].result
      /\ req[p2].out = req[p1].out
      /\ regs[req[p1].reg].user # req[p1].user

C26_Witness ==
  \E p1, p2 \in Procs :
    /\ Answered(p1, "cancel", "Forbidden")
    /\ Answered(p2, "cancel", "Forbidden")
    /\ req[p1].user = req[p2].user
    /\ statusBefore(p1, 1) = "confirmed"
    /\ statusBefore(p2, 1) = "cancelled"

\* C27: the registrationDate of a record changes only in the step of
\* registerForEvent that saves the re-activation of a cancelled record (a new
\* record gets its date when it is created); no step of cancelRegistration or
\* updateRegistrationStatus changes the registrationDate of any record, the
\* override from cancelled to confirmed included.
C27_DateWrittenOnlyByRegister ==
  [][\A r \in DOMAIN regs :
       /\ regs'[r].registrationDate # regs[r].registrationDate =>
            \E p \in Procs :
              /\ At(p, "register", "saveReg")
              /\ req[p].reg = r
              /\ regs[r].status = "cancelled"
              /\ regs'[r].status = "confirmed"
              /\ regs'[r].registrationDate = req[p].date
       /\ (\E p \in Procs :
             /\ req[p].op \in {"cancel", "setStatus"}
             /\ req'[p] # req[p]) =>
            regs'[r].registrationDate = regs[r].registrationDate]_vars

C27_Witness ==
  \E p \in Procs :
    /\ Answered(p, "setStatus", "Updated")
    /\ statusBefore(p, req[p].reg) = "cancelled"
    /\ req[p].status = "confirmed"
    /\ regs[req[p].reg].status = "confirmed"
    /\ regs[req[p].reg].registrationDate = req[p].pre.regs[req[p].reg].registrationDate
    /\ now > regs[req[p].reg].registrationDate + 1

\* C28: a registerForEvent, cancelRegistration or updateRegistrationStatus
\* that has answered left totalSeats, confirmedCount and availableSeats of every
\* event other than the one its registration belongs to as they were when it
\* arrived, and left every registration other than the one it acted on as it
\* was; a registration it added is the one it acted on and belongs to the event
\* of the request.
C28_SeatAccountingPerEvent ==
  \A p \in Procs :
    (Done(p, "register") \/ Done(p, "cancel") \/ Done(p, "setStatus")) =>
      /\ DOMAIN events = DOMAIN req[p].pre.events
      /\ \A e \in DOMAIN events :
           e # req[p].event =>
             /\ events[e] = req[p].pre.events[e]
             /\ confirmedCount(e) = countConfirmed(req[p].pre.regs, e)
             /\ availableSeats(e) = seatsBefore(p, e)
      /\ \A o \in DOMAIN req[p].pre.regs :
           o # req[p].reg => o \in DOMAIN regs /\ regs[o] = req[p].pre.regs[o]
      /\ \A o \in DOMAIN regs :
           o \notin DOMAIN req[p].pre.regs =>
             o = req[p].reg /\ regs[o].event = req[p].event

C28_Witness ==
  \E p \in Procs, e \in DOMAIN events :
    /\ Answered(p, "register", "Created")
    /\ e # req[p].event
    /\ confirmedCount(e) > 0
    /\ confirmedCount(req[p].event) > countConfirmed(req[p].pre.regs, req[p].event)
    /\ availableSeats(e) = seatsBefore(p, e)
    /\ \E o \in DOMAIN regs : o # req[p].reg /\ regs[o].status = "cancelled"

====
